---- MODULE Spec2Model ----
(***************************************************************************)
(* Model of the Smart Book Shuffler (src/app.py): the JSON-file library,   *)
(* the segmenter with its word-count fallback, and the library/progress    *)
(* controller (process_uploaded_book, get_random_unread_segment,           *)
(* reset_book_progress, delete_book) together with the page events of     *)
(* main().  Spec calls the controller in any order, PageSpec runs the page *)
(* alone, FaultSpec lets writes of the file fail, RaceSpec interleaves the *)
(* loads and saves of two sessions, SegSpec runs the segmenter alone.      *)
(*                                                                         *)
(* A text is a sequence of one-character strings.  SEGMENT_WORD_COUNT is   *)
(* 5000 in the source; the model runs the same loop with a small segment   *)
(* size so that full, short and multiple segments all occur.               *)
(***************************************************************************)
EXTENDS Integers, Sequences, FiniteSets, TLC

VARIABLES store, disk_ok, api_key, session_books_data, current_display,
          page_error, segcall, sumcall, lastOp, pre, result,
          calls, runStart, deleted, sess

vars == <<store, disk_ok, api_key, session_books_data, current_display,
          page_error, segcall, sumcall, lastOp, pre, result,
          calls, runStart, deleted, sess>>

\* ------------------------------------------------------------------ bounds
MaxTextLen == 9
MaxCalls == 8
MaxFaultRun == 2
MaxRaceOps == 2
SEGMENT_WORD_COUNT == 2

\* ------------------------------------------------------------- text model
Whitespace == {" "}
Chars == {"a", "b", " "}

Titles == {"A", "B"}

RECURSIVE SplitAcc(_, _, _)
SplitAcc(s, word, words) ==
    IF s = <<>>
    THEN IF word = <<>> THEN words ELSE Append(words, word)
    ELSE IF Head(s) \in Whitespace
         THEN SplitAcc(Tail(s), <<>>,
                       IF word = <<>> THEN words ELSE Append(words, word))
         ELSE SplitAcc(Tail(s), Append(word, Head(s)), words)

\* str.split(): the maximal runs of non-whitespace characters, in order
Split(s) == SplitAcc(s, <<>>, <<>>)

RECURSIVE Join(_)
\* ' '.join(words)
Join(words) ==
    IF words = <<>> THEN <<>>
    ELSE IF Len(words) = 1 THEN words[1]
    ELSE words[1] \o <<" ">> \o Join(Tail(words))

\* ---------------------------------------------------------------- segmenter
FlushAt_Late(current_word_count) == current_word_count > SEGMENT_WORD_COUNT

\* the test that closes the running segment (line 137)
FlushAt(current_word_count) == current_word_count >= SEGMENT_WORD_COUNT

RECURSIVE FallbackLoop(_, _, _, _)
\* the for loop over words (lines 133-140)
FallbackLoop(words, segments, current_segment, current_word_count) ==
    IF words = <<>>
    THEN [segments |-> segments, current_segment |-> current_segment]
    ELSE LET seg == Append(current_segment, Head(words))
             cnt == current_word_count + 1
         IN IF FlushAt(cnt)
            THEN FallbackLoop(Tail(words), Append(segments, Join(seg)), <<>>, 0)
            ELSE FallbackLoop(Tail(words), segments, seg, cnt)

\* the except branch of segment_book_with_gemini (lines 128-146)
FallbackSegments(book_content) ==
    LET loop == FallbackLoop(Split(book_content), <<>>, <<>>, 0)
    IN IF loop.current_segment # <<>>
       THEN Append(loop.segments, Join(loop.current_segment))
       ELSE loop.segments

\* What the external service call produced: kind "error" is an exception
\* from the call or from json.loads, "notlist" is JSON that is not a list,
\* "list" is a JSON array (segments holds its elements).
ServiceLists == { <<>>, << <<"x">> >>,
                  << <<"x">>, <<"y">>, <<"z", " ", "z">> >> }

ServiceResponses ==
    { [kind |-> "error", segments |-> <<>>],
      [kind |-> "notlist", segments |-> <<>>] }
    \cup { [kind |-> "list", segments |-> s] : s \in ServiceLists }

\* the test of line 120: the parsed response is accepted
ResponseAccepted(response) ==
    /\ response.kind = "list"
    /\ Len(response.segments) # 0

segment_book_with_gemini_NoFallback(book_content, response) ==
    IF response.kind = "list"
    THEN response.segments
    ELSE FallbackSegments(book_content)

segment_book_with_gemini(book_content, response) ==
    IF ResponseAccepted(response)
    THEN response.segments
    ELSE FallbackSegments(book_content)

AllTexts == UNION { [1..n -> Chars] : n \in 0..MaxTextLen }

\* Uploaded texts offered to the library: whitespace only, one word more
\* than a segment, and two segments and a rest with irregular whitespace.
BookTexts == { <<" ", " ">>,
               <<"a", " ", "b", " ", "a">>,
               <<" ", "a", " ", " ", "b", " ", "b", " ", "a", " ", "a", " ">> }

\* ------------------------------------------------------------------- store
\* books_data.json: title -> record; a missing file is the empty library
EmptyLibrary == [t \in {} |-> 0]

load_books_data == store

\* json.dump of the whole mapping over the file; a failure to open or write
\* it is caught and reported (lines 66-70), and the file stays as it was
save_books_data(data) == IF disk_ok THEN data ELSE store

\* the record process_uploaded_book builds (lines 195-199)
NewRecord(segments) ==
    [segments |-> segments,
     current_index |-> 0,
     total_segments |-> Len(segments)]

PutBook_IfAbsent(books_data, book_title, record) ==
    IF book_title \in DOMAIN books_data
    THEN books_data
    ELSE [t \in DOMAIN books_data \cup {book_title} |->
            IF t = book_title THEN record ELSE books_data[t]]

\* books_data[book_title] = record (line 195)
PutBook(books_data, book_title, record) ==
    [t \in DOMAIN books_data \cup {book_title} |->
        IF t = book_title THEN record ELSE books_data[t]]

AvailableBooks_OnlyUnstarted(books_data) ==
    { t \in DOMAIN books_data :
        /\ books_data[t].current_index = 0
        /\ books_data[t].total_segments > 0 }

AvailableBooks_SkipLast(books_data) ==
    { t \in DOMAIN books_data :
        books_data[t].current_index + 1 < books_data[t].total_segments }

\* the titles with unread segments (lines 216-219)
AvailableBooks(books_data) ==
    { t \in DOMAIN books_data :
        books_data[t].current_index < books_data[t].total_segments }

None == [none |-> TRUE]
NoneText == <<"None">>

ResultTuple_NextAsPrevious(book_title, book_data) ==
    LET current_index == book_data.current_index
    IN [book_title |-> book_title,
        segment_text |-> book_data.segments[current_index + 1],
        segment_index |-> current_index,
        is_first_segment |-> (current_index = 0),
        previous_segment |-> IF current_index > 0
                             THEN book_data.segments[current_index + 1]
                             ELSE NoneText]

\* the tuple get_random_unread_segment returns (lines 226-229, 236);
\* Python's segments[i] is segments[i + 1] here
ResultTuple(book_title, book_data) ==
    LET current_index == book_data.current_index
    IN [book_title |-> book_title,
        segment_text |-> book_data.segments[current_index + 1],
        segment_index |-> current_index,
        is_first_segment |-> (current_index = 0),
        previous_segment |-> IF current_index > 0
                             THEN book_data.segments[current_index]
                             ELSE NoneText]

Advance_AllBooks(books_data, book_title) ==
    [t \in DOMAIN books_data |->
        IF books_data[t].current_index < books_data[t].total_segments
        THEN [books_data[t] EXCEPT !.current_index = @ + 1]
        ELSE books_data[t]]

Advance_ByTwo(books_data, book_title) ==
    [books_data EXCEPT ![book_title].current_index = @ + 2]

Advance_Stuck(books_data, book_title) ==
    [books_data EXCEPT ![book_title].current_index = @]

\* books_data[book_title]['current_index'] = current_index + 1 (line 232)
Advance(books_data, book_title) ==
    [books_data EXCEPT ![book_title].current_index = @ + 1]

ResetCursor_OnlyComplete(books_data, book_title) ==
    [books_data EXCEPT ![book_title].current_index =
        IF @ = books_data[book_title].total_segments THEN 0 ELSE @]

\* books_data[book_title]['current_index'] = 0 (line 248)
ResetCursor(books_data, book_title) ==
    [books_data EXCEPT ![book_title].current_index = 0]

RemoveBook_KeepRecord(books_data, book_title) ==
    [books_data EXCEPT ![book_title].current_index = 0]

\* del books_data[book_title] (line 256)
RemoveBook(books_data, book_title) ==
    [t \in DOMAIN books_data \ {book_title} |-> books_data[t]]

\* A progress value is the exact fraction num / den (den > 0).
\* calculate_progress (lines 238-242): (current_index / total_segments) * 100
calculate_progress(book_data) ==
    IF book_data.total_segments = 0
    THEN [num |-> 0, den |-> 1]
    ELSE [num |-> book_data.current_index * 100,
          den |-> book_data.total_segments]

\* ------------------------------------------------------------- summarizer
FallbackSummary == "Where we left off: Continuing from the previous segment..."

\* What the summarization call produced: ok = FALSE is any exception inside
\* the try block, text is response.text.strip() otherwise.
SummaryOutcomes == { [ok |-> FALSE, text |-> ""],
                     [ok |-> TRUE, text |-> "Where we left off: recap"] }

\* generate_summary_with_gemini (lines 148-185)
generate_summary_with_gemini(outcome) ==
    IF outcome.ok THEN outcome.text ELSE FallbackSummary

\* ------------------------------------------------- state and its history
\* store          the contents of books_data.json
\* disk_ok        the file can be written (open and json.dump succeed)
\* api_key        the value of the sidebar's key input
\* session_books_data   st.session_state.books_data
\* current_display      st.session_state.current_display, None if not set
\* page_error     the exception the last script run ended with, "none" if it
\*                ran to its end
\* segcall        the segmenter call of the last operation: inputs and return
\* sumcall        the summarizer call of the last script run
\* lastOp, pre    the last controller operation and the library it loaded
\* result         what the last get_random_unread_segment call returned
\* calls          the results of the get_random_unread_segment calls made
\*                since the last other operation; runStart is the library
\*                those calls started from
\* deleted        the titles delete_book removed and nothing ingested since
\* sess           the operations of two sessions that are between their load
\*                and their save
NoSegCall == [state |-> "none", book_content |-> <<>>,
              response |-> [kind |-> "error", segments |-> <<>>],
              api_key |-> "", segments |-> <<>>]

NoSumCall == [state |-> "none", api_key |-> "",
              outcome |-> [ok |-> FALSE, text |-> ""], summary |-> ""]

Op(op, title, via) == [op |-> op, title |-> title, via |-> via]

Sessions == {1, 2}

\* a session with no operation under way: pc is "idle" or "loaded" (between
\* load_books_data and save_books_data); loaded is what the operation read,
\* before the file as its save found it, books_data the mapping it wrote,
\* saved whether it got to save_books_data, n the operations begun so far
Idle == [pc |-> "idle", op |-> "-", title |-> "-", segments |-> <<>>,
         loaded |-> EmptyLibrary, before |-> EmptyLibrary,
         books_data |-> EmptyLibrary, saved |-> FALSE, result |-> None,
         n |-> 0]

pageVars == <<current_display, page_error, sumcall>>

Init ==
    /\ store = EmptyLibrary
    /\ disk_ok = TRUE
    /\ api_key = ""
    /\ session_books_data = EmptyLibrary
    /\ current_display = None
    /\ page_error = "none"
    /\ segcall = NoSegCall
    /\ sumcall = NoSumCall
    /\ lastOp = Op("init", "-", "-")
    /\ pre = EmptyLibrary
    /\ result = None
    /\ calls = <<>>
    /\ runStart = EmptyLibrary
    /\ deleted = {}
    /\ sess = [s \in Sessions |-> Idle]

\* ------------------------------------------------------------- controller
process_uploaded_book(book_title, book_content, response, key, via) ==
    LET segments == segment_book_with_gemini(book_content, response)
        books_data == load_books_data
        updated == PutBook(books_data, book_title, NewRecord(segments))
    IN /\ store' = save_books_data(updated)
       /\ session_books_data' = updated
       /\ segcall' = [state |-> "returned", book_content |-> book_content,
                      response |-> response, api_key |-> key,
                      segments |-> segments]
       /\ lastOp' = Op("ingest", book_title, via)
       /\ pre' = books_data
       /\ result' = None
       /\ calls' = <<>>
       /\ runStart' = store'
       /\ deleted' = deleted \ {book_title}

\* a direct call of process_uploaded_book
Ingest ==
    /\ \E book_title \in Titles, book_content \in BookTexts,
          response \in ServiceResponses :
           process_uploaded_book(book_title, book_content, response,
                                 api_key, "call")
    /\ UNCHANGED <<api_key, disk_ok, pageVars, sess>>

\* the branch of get_random_unread_segment that serves book_title
Serve(book_title) ==
    LET books_data == load_books_data
    IN /\ Len(calls) < MaxCalls
       /\ book_title \in AvailableBooks(books_data)
       /\ result' = ResultTuple(book_title, books_data[book_title])
       /\ store' = save_books_data(Advance(books_data, book_title))
       /\ session_books_data' = Advance(books_data, book_title)
       /\ pre' = books_data

\* the two early returns of get_random_unread_segment (lines 212-213, 221-222)
ServeNothing ==
    LET books_data == load_books_data
    IN /\ Len(calls) < MaxCalls
       /\ \/ DOMAIN books_data = {}
          \/ AvailableBooks(books_data) = {}
       /\ result' = None
       /\ store' = store
       /\ session_books_data' = session_books_data
       /\ pre' = books_data

get_random_unread_segment(via) ==
    /\ \/ ServeNothing
       \/ \E book_title \in Titles : Serve(book_title)
    /\ lastOp' = Op("nextUnread", "-", via)
    /\ calls' = Append(calls, result')
    /\ segcall' = NoSegCall
    /\ UNCHANGED <<runStart, deleted>>

\* a direct call of get_random_unread_segment
NextUnread ==
    /\ get_random_unread_segment("call")
    /\ UNCHANGED <<api_key, disk_ok, pageVars, sess>>

reset_book_progress(book_title, via) ==
    LET books_data == load_books_data
    IN /\ store' = IF book_title \in DOMAIN books_data
                   THEN save_books_data(ResetCursor(books_data, book_title))
                   ELSE store
       /\ session_books_data' = IF book_title \in DOMAIN books_data
                                THEN ResetCursor(books_data, book_title)
                                ELSE session_books_data
       /\ lastOp' = Op("reset", book_title, via)
       /\ pre' = books_data
       /\ result' = None
       /\ calls' = <<>>
       /\ runStart' = store'
       /\ segcall' = NoSegCall
       /\ UNCHANGED deleted

\* a direct call of reset_book_progress
Reset ==
    /\ \E book_title \in Titles : reset_book_progress(book_title, "call")
    /\ UNCHANGED <<api_key, disk_ok, pageVars, sess>>

delete_book(book_title, via) ==
    LET books_data == load_books_data
    IN /\ store' = IF book_title \in DOMAIN books_data
                   THEN save_books_data(RemoveBook(books_data, book_title))
                   ELSE store
       /\ session_books_data' = IF book_title \in DOMAIN books_data
                                THEN RemoveBook(books_data, book_title)
                                ELSE session_books_data
       /\ deleted' = IF book_title \in DOMAIN books_data
                     THEN deleted \cup {book_title}
                     ELSE deleted
       /\ lastOp' = Op("delete", book_title, via)
       /\ pre' = books_data
       /\ result' = None
       /\ calls' = <<>>
       /\ runStart' = store'
       /\ segcall' = NoSegCall

\* a direct call of delete_book
Delete ==
    /\ \E book_title \in Titles : delete_book(book_title, "call")
    /\ UNCHANGED <<api_key, disk_ok, pageVars, sess>>

\* ------------------------------------------------------- handlers of main
\* display_data['previous_segment'] is truthy (line 384)
Truthy(segment) == segment # NoneText /\ segment # <<>>

\* the script reaches the display of current_display (lines 336-375)
ShowsDisplay(books_data, key, display) ==
    /\ DOMAIN books_data # {}
    /\ key # ""
    /\ AvailableBooks(books_data) # {}
    /\ display # None

\* The main content area of the script run that ends a page event, on the
\* state that event leaves (lines 336-403): books_data[...] of line 381
\* raises KeyError for a title that is not in the library, and the summary
\* is generated for a segment that is not the first.
Render ==
    LET books_data == store'
        display == current_display'
    IN IF ~ ShowsDisplay(books_data, api_key', display)
       THEN page_error' = "none" /\ sumcall' = NoSumCall
       ELSE IF display.book_title \notin DOMAIN books_data
       THEN page_error' = "KeyError" /\ sumcall' = NoSumCall
       ELSE IF ~ display.is_first_segment /\ Truthy(display.previous_segment)
       THEN /\ page_error' = "none"
            /\ \E outcome \in SummaryOutcomes :
                  sumcall' = [state |-> "returned", api_key |-> api_key',
                              outcome |-> outcome,
                              summary |-> generate_summary_with_gemini(outcome)]
       ELSE page_error' = "none" /\ sumcall' = NoSumCall

\* the key typed into the sidebar (lines 269-277)
EnterApiKey ==
    /\ \E key \in {"", "key"} : api_key' = key
    /\ api_key' # api_key
    /\ UNCHANGED <<store, disk_ok, session_books_data, current_display,
                   segcall, lastOp, pre, result, calls, runStart, deleted,
                   sess>>
    /\ Render

ProcessOffered_NoKeyCheck(book_title) ==
    book_title \notin DOMAIN load_books_data

\* the "Process <title>" button is on the page for a file <title>.txt in
\* the uploader (lines 291-298)
ProcessOffered(book_title) ==
    /\ api_key # ""
    /\ book_title \notin DOMAIN load_books_data

\* a click on "Process <title>" (lines 298-301)
ProcessButton(book_title) ==
    /\ ProcessOffered(book_title)
    /\ \E book_content \in BookTexts, response \in ServiceResponses :
          process_uploaded_book(book_title, book_content, response,
                                api_key, "button")
    /\ UNCHANGED <<api_key, disk_ok, current_display, sess>>
    /\ Render

RECURSIVE ResetEach(_, _)
\* for title in books_data.keys(): reset_book_progress(title) (lines 353-354)
ResetEach(data, titles) ==
    IF titles = {} THEN data
    ELSE LET title == CHOOSE t \in titles : TRUE
         IN ResetEach(IF title \in DOMAIN data
                      THEN save_books_data(ResetCursor(data, title))
                      ELSE data,
                      titles \ {title})

\* a click on "Reset All Progress", shown when the library is not empty, a
\* key is entered and no book has an unread segment (lines 336-355); the
\* session keeps the books_data of the last reset_book_progress call
ResetAllButton ==
    LET books_data == load_books_data
    IN /\ DOMAIN books_data # {}
       /\ api_key # ""
       /\ AvailableBooks(books_data) = {}
       /\ store' = ResetEach(store, DOMAIN books_data)
       /\ \E last \in DOMAIN books_data :
             session_books_data' = ResetCursor(store', last)
       /\ lastOp' = Op("resetAll", "-", "button")
       /\ pre' = books_data
       /\ result' = None
       /\ calls' = <<>>
       /\ runStart' = store'
       /\ segcall' = NoSegCall
       /\ UNCHANGED <<api_key, disk_ok, current_display, deleted, sess>>
       /\ Render

\* a click on a book's reset button in the sidebar (lines 314-325)
ResetButton(book_title) ==
    /\ book_title \in DOMAIN load_books_data
    /\ reset_book_progress(book_title, "button")
    /\ UNCHANGED <<api_key, disk_ok, current_display, sess>>
    /\ Render

\* a click on a book's delete button in the sidebar (lines 314-329)
DeleteButton(book_title) ==
    /\ book_title \in DOMAIN load_books_data
    /\ delete_book(book_title, "button")
    /\ UNCHANGED <<api_key, disk_ok, current_display, sess>>
    /\ Render

\* a click on "Give me something to read" (lines 336-372)
GiveMeButton ==
    /\ DOMAIN load_books_data # {}
    /\ api_key # ""
    /\ AvailableBooks(load_books_data) # {}
    /\ get_random_unread_segment("button")
    /\ current_display' = IF result' # None THEN result' ELSE current_display
    /\ UNCHANGED <<api_key, disk_ok, sess>>
    /\ Render

\* a new browser session: st.session_state starts over (lines 47-51), the
\* file stays
NewSession ==
    /\ api_key' = ""
    /\ session_books_data' = EmptyLibrary
    /\ current_display' = None
    /\ \/ api_key # ""
       \/ session_books_data # EmptyLibrary
       \/ current_display # None
    /\ UNCHANGED <<store, disk_ok, segcall, lastOp, pre, result, calls,
                   runStart, deleted, sess>>
    /\ Render

Next ==
    \/ Ingest
    \/ NextUnread
    \/ Reset
    \/ Delete
    \/ EnterApiKey
    \/ \E book_title \in Titles : ProcessButton(book_title)
    \/ ResetAllButton

Spec == Init /\ [][Next]_vars

\* ------------------------------------------------------ the page on its own
PageNext ==
    \/ EnterApiKey
    \/ NewSession
    \/ \E book_title \in Titles : ProcessButton(book_title)
    \/ \E book_title \in Titles : ResetButton(book_title)
    \/ \E book_title \in Titles : DeleteButton(book_title)
    \/ ResetAllButton
    \/ GiveMeButton

PageSpec == Init /\ [][PageNext]_vars

\* ------------------------------------------- the store with failing writes
\* the file becomes unwritable, or writable again
DiskFault ==
    /\ disk_ok' = ~ disk_ok
    /\ UNCHANGED <<store, api_key, session_books_data, pageVars, segcall,
                   lastOp, pre, result, calls, runStart, deleted, sess>>

\* a direct call of get_random_unread_segment, in runs of at most MaxFaultRun
FaultNextUnread ==
    /\ Len(calls) < MaxFaultRun
    /\ NextUnread

FaultNext ==
    \/ Ingest
    \/ FaultNextUnread
    \/ Reset
    \/ Delete
    \/ DiskFault

FaultSpec == Init /\ [][FaultNext]_vars

\* ------------------------------------- two sessions on the same file
\* The texts and service responses of the ingests of the two sessions.
RaceTexts == { <<"a", " ", "b", " ", "a">> }
RaceResponses == { [kind |-> "error", segments |-> <<>>] }

WholeFile_OnlyTitle(books_data, book_title) ==
    IF book_title \in DOMAIN books_data
    THEN [t \in DOMAIN store \cup {book_title} |->
            IF t = book_title THEN books_data[t] ELSE store[t]]
    ELSE [t \in DOMAIN store \ {book_title} |-> store[t]]

\* what save_books_data(books_data) puts in the file: json.dump of the whole
\* mapping the operation loaded and changed (lines 67-68)
WholeFile(books_data, book_title) == books_data

\* an operation that returns without a save
RaceReturn(s, op, title, books_data) ==
    sess' = [sess EXCEPT ![s] =
               [pc |-> "idle", op |-> op, title |-> title, segments |-> <<>>,
                loaded |-> books_data, before |-> books_data,
                books_data |-> books_data, saved |-> FALSE, result |-> None,
                n |-> sess[s].n + 1]]

\* an operation that has loaded the file and goes on to change and save it
RaceLoaded(s, op, title, segments, books_data, res) ==
    sess' = [sess EXCEPT ![s] =
               [pc |-> "loaded", op |-> op, title |-> title,
                segments |-> segments, loaded |-> books_data,
                before |-> books_data, books_data |-> books_data,
                saved |-> FALSE, result |-> res, n |-> sess[s].n + 1]]

\* session s starts an operation and runs it up to its load_books_data
\* (lines 192-194, 210-229, 246-247, 254-255)
RaceBegin(s) ==
    /\ sess[s].pc = "idle"
    /\ sess[s].n < MaxRaceOps
    /\ LET books_data == load_books_data
       IN \/ \E book_title \in Titles, book_content \in RaceTexts,
                response \in RaceResponses :
                 RaceLoaded(s, "ingest", book_title,
                            segment_book_with_gemini(book_content, response),
                            books_data, None)
          \/ /\ AvailableBooks(books_data) = {}
             /\ RaceReturn(s, "nextUnread", "-", books_data)
          \/ \E book_title \in AvailableBooks(books_data) :
                 RaceLoaded(s, "nextUnread", book_title, <<>>, books_data,
                            ResultTuple(book_title, books_data[book_title]))
          \/ \E book_title \in Titles :
                 IF book_title \in DOMAIN books_data
                 THEN RaceLoaded(s, "delete", book_title, <<>>, books_data,
                                 None)
                 ELSE RaceReturn(s, "delete", book_title, books_data)
          \/ \E book_title \in Titles :
                 IF book_title \in DOMAIN books_data
                 THEN RaceLoaded(s, "reset", book_title, <<>>, books_data,
                                 None)
                 ELSE RaceReturn(s, "reset", book_title, books_data)
    /\ UNCHANGED <<store, disk_ok, api_key, session_books_data, pageVars,
                   segcall, lastOp, pre, result, calls, runStart, deleted>>

\* the mapping the operation of session s holds after its change
RaceChanged(s) ==
    LET o == sess[s]
    IN CASE o.op = "ingest" ->
               PutBook(o.loaded, o.title, NewRecord(o.segments))
         [] o.op = "nextUnread" -> Advance(o.loaded, o.title)
         [] o.op = "reset" -> ResetCursor(o.loaded, o.title)
         [] o.op = "delete" -> RemoveBook(o.loaded, o.title)

\* session s changes the mapping it loaded and saves it
\* (lines 195-201, 232-234, 248-250, 256-258)
RaceSave(s) ==
    /\ sess[s].pc = "loaded"
    /\ store' = save_books_data(WholeFile(RaceChanged(s), sess[s].title))
    /\ sess' = [sess EXCEPT ![s].pc = "idle",
                            ![s].before = store,
                            ![s].books_data = store',
                            ![s].saved = TRUE]
    /\ UNCHANGED <<disk_ok, api_key, session_books_data, pageVars,
                   segcall, lastOp, pre, result, calls, runStart, deleted>>

RaceNext == \E s \in Sessions : RaceBegin(s) \/ RaceSave(s)

RaceSpec == Init /\ [][RaceNext]_vars

\* ------------------------------------------------- the segmenter on its own
SegInit ==
    /\ segcall \in { [state |-> "pending", book_content |-> t,
                      response |-> r, api_key |-> "key",
                      segments |-> <<>>] :
                     t \in AllTexts, r \in ServiceResponses }
    /\ store = EmptyLibrary
    /\ disk_ok = TRUE
    /\ api_key = "key"
    /\ session_books_data = EmptyLibrary
    /\ current_display = None
    /\ page_error = "none"
    /\ sumcall = NoSumCall
    /\ lastOp = Op("init", "-", "-")
    /\ pre = EmptyLibrary
    /\ result = None
    /\ calls = <<>>
    /\ runStart = EmptyLibrary
    /\ deleted = {}
    /\ sess = [s \in Sessions |-> Idle]

SegmentBook ==
    /\ segcall.state = "pending"
    /\ segcall' = [segcall EXCEPT
                     !.state = "returned",
                     !.segments = segment_book_with_gemini(segcall.book_content,
                                                           segcall.response)]
    /\ UNCHANGED <<store, disk_ok, api_key, session_books_data, pageVars,
                   lastOp, pre, result, calls, runStart, deleted, sess>>

SegNext == SegmentBook

SegSpec == SegInit /\ [][SegNext]_vars

TypeOK ==
    /\ DOMAIN store \subseteq Titles
    /\ api_key \in {"", "key"}
    /\ disk_ok \in BOOLEAN
    /\ page_error \in {"none", "KeyError"}

\* -------------------------------------------------------------- properties
\* the titles of a library whose cursor has not reached the segment count
Unread(library) ==
    { t \in DOMAIN library :
        library[t].current_index < library[t].total_segments }

Served(r) == r # None

\* C1: every stored book record satisfies
\* 0 <= current_index <= total_segments, whatever operations ran.
C1_CursorInRange ==
    \A t \in DOMAIN store :
        /\ 0 <= store[t].current_index
        /\ store[t].current_index <= store[t].total_segments

\* C1 witness: a call of get_random_unread_segment has just moved a cursor
\* onto its upper limit.
C1_Witness ==
    /\ lastOp.op = "nextUnread"
    /\ Served(result)
    /\ store[result.book_title].current_index
         = store[result.book_title].total_segments
    /\ store[result.book_title].total_segments > 1

\* C2: no stored record has an empty segments list, and an ingest whose
\* segmentation yields zero segments leaves the library unchanged.
C2_NoEmptyRecord ==
    /\ \A t \in DOMAIN store : store[t].segments # <<>>
    /\ (lastOp.op = "ingest" /\ segcall.segments = <<>>) => store = pre

\* C3: get_random_unread_segment returns None exactly when the library it
\* loaded has no title with current_index < total_segments; a served title
\* was such a title; and every such title can be the one served.
C3_ChoiceIsEligibleSet ==
    /\ lastOp.op = "nextUnread" =>
          /\ (result = None) <=> (Unread(pre) = {})
          /\ Served(result) => result.book_title \in Unread(pre)
    /\ Len(calls) < MaxCalls =>
          \A t \in Titles : (t \in Unread(store)) <=> ENABLED Serve(t)

\* C3 witness: a segment was served from a library with two eligible titles,
\* and serving it changed the eligible set.
C3_Witness ==
    /\ lastOp.op = "nextUnread"
    /\ Served(result)
    /\ Cardinality(Unread(pre)) = 2
    /\ Unread(store) # Unread(pre)
    /\ Len(calls) < MaxCalls

\* C4: from a library of one book with cursor 0 and N segments, consecutive
\* get_random_unread_segment calls return indices 0, 1, ..., N-1 in that
\* order and every later call returns None.
C4_SingleBookInOrder ==
    \A t \in Titles :
        (DOMAIN runStart = {t} /\ runStart[t].current_index = 0) =>
            \A k \in 1..Len(calls) :
                IF k <= runStart[t].total_segments
                THEN /\ Served(calls[k])
                     /\ calls[k].book_title = t
                     /\ calls[k].segment_index = k - 1
                ELSE calls[k] = None

\* C4 witness: a one-book library of three segments after four calls.
C4_Witness ==
    \E t \in Titles :
        /\ DOMAIN runStart = {t}
        /\ runStart[t].current_index = 0
        /\ runStart[t].total_segments = 3
        /\ Len(calls) = 4
        /\ calls[4] = None

\* C5: a returned tuple for a book whose cursor was i carries
\* segment_index = i, segment_text = segments[i], is_first_segment = (i = 0)
\* and previous_segment = segments[i-1] if i > 0, None otherwise, all of that
\* one book.
C5_TupleFields ==
    (lastOp.op = "nextUnread" /\ Served(result)) =>
        /\ result.book_title \in DOMAIN pre
        /\ LET book == pre[result.book_title]
               i == book.current_index
           IN /\ result.segment_index = i
              /\ result.segment_text = book.segments[i + 1]
              /\ result.is_first_segment = (i = 0)
              /\ result.previous_segment =
                    IF i > 0 THEN book.segments[i] ELSE NoneText

\* C5 witness: a tuple for a later segment, whose previous segment differs
\* from it, served while another book was in the library.
C5_Witness ==
    /\ lastOp.op = "nextUnread"
    /\ Served(result)
    /\ result.segment_index > 0
    /\ result.previous_segment # result.segment_text
    /\ Cardinality(DOMAIN pre) = 2

RECURSIVE WordsOf(_)
\* the words of all segments, in order
WordsOf(segments) ==
    IF segments = <<>> THEN <<>>
    ELSE Split(Head(segments)) \o WordsOf(Tail(segments))

FellBack(call) ==
    call.response.kind # "list" \/ call.response.segments = <<>>

\* C6: on n >= 1 words the fallback segmenter returns ceil(n/S) segments,
\* all but the last of exactly S words, the last of 1..S words, and the
\* words of the segments in order are the words of the text.
C6_FallbackShape ==
    LET words == Split(segcall.book_content)
        n == Len(words)
        S == SEGMENT_WORD_COUNT
        segs == segcall.segments
    IN (segcall.state = "returned" /\ FellBack(segcall) /\ n >= 1) =>
          /\ Len(segs) = (n + S - 1) \div S
          /\ \A i \in 1..(Len(segs) - 1) : Len(Split(segs[i])) = S
          /\ Len(Split(segs[Len(segs)])) \in 1..S
          /\ WordsOf(segs) = words

\* C6 witness: a text of five words, not all the same, fell back to three
\* segments, the last of one word.
C6_Witness ==
    /\ segcall.state = "returned"
    /\ FellBack(segcall)
    /\ Len(Split(segcall.book_content)) = 5
    /\ Len(segcall.segments) = 3
    /\ Len(Split(segcall.segments[3])) = 1
    /\ segcall.segments[1] # segcall.segments[2]

\* C7: the segmenter returns a non-empty sequence for every non-empty text,
\* whichever path produced it.
C7_NonEmptySegments ==
    (segcall.state = "returned" /\ segcall.book_content # <<>>) =>
        segcall.segments # <<>>

\* the progress of a record is zero
ZeroProgress(book_data) ==
    book_data.total_segments = 0 \/ book_data.current_index = 0

\* C8: reset_book_progress on a title in the library leaves its
\* current_index at 0 whatever it was; on a title not in the library it
\* changes nothing.
C8_ResetToZero ==
    lastOp.op = "reset" =>
        IF lastOp.title \in DOMAIN pre
        THEN /\ lastOp.title \in DOMAIN store
             /\ store[lastOp.title].current_index = 0
             /\ ZeroProgress(store[lastOp.title])
        ELSE store = pre

\* C8 witness: a reset of a book that was in progress.
C8_Witness ==
    /\ lastOp.op = "reset"
    /\ lastOp.title \in DOMAIN pre
    /\ pre[lastOp.title].current_index > 0
    /\ pre[lastOp.title].current_index < pre[lastOp.title].total_segments

\* C9: a deleted title is absent and is served by no later
\* get_random_unread_segment call until it is ingested again; delete_book on
\* an absent title changes nothing.
C9_DeletedStaysAway ==
    /\ \A t \in deleted :
          /\ t \notin DOMAIN store
          /\ \A k \in 1..Len(calls) :
                Served(calls[k]) => calls[k].book_title # t
    /\ lastOp.op = "delete" =>
          /\ lastOp.title \notin DOMAIN store
          /\ lastOp.title \notin DOMAIN pre => store = pre

\* C9 witness: after a book with unread segments was deleted, a call served
\* a segment of the other book.
C9_Witness ==
    /\ deleted # {}
    /\ lastOp.op = "nextUnread"
    /\ Served(result)
    /\ result.book_title \notin deleted

\* C10 as amended: process_uploaded_book on a title replaces any record of
\* it by the new segmentation with current_index = 0 and total_segments its
\* length, and the Process button of the page ingests only titles that are
\* not in the library.
C10_ReplaceOnCall ==
    lastOp.op = "ingest" =>
        /\ lastOp.title \in DOMAIN store
        /\ store[lastOp.title].segments = segcall.segments
        /\ store[lastOp.title].current_index = 0
        /\ store[lastOp.title].total_segments = Len(segcall.segments)
        /\ lastOp.via = "button" => lastOp.title \notin DOMAIN pre

\* C10 witness: a call replaced the record of a started book by another
\* segmentation.
C10_Witness ==
    /\ lastOp.op = "ingest"
    /\ lastOp.title \in DOMAIN pre
    /\ pre[lastOp.title].current_index > 0
    /\ pre[lastOp.title].segments # store[lastOp.title].segments

\* C10 as claimed: an ingest replaces the record, and with a key entered the
\* page offers to process a title again in every state that holds it.
C10_ReingestAvailable ==
    /\ lastOp.op = "ingest" =>
          /\ lastOp.title \in DOMAIN store
          /\ store[lastOp.title].segments = segcall.segments
          /\ store[lastOp.title].current_index = 0
          /\ store[lastOp.title].total_segments = Len(segcall.segments)
    /\ \A t \in DOMAIN store :
          api_key # "" => ENABLED ProcessButton(t)

\* C15: a get_random_unread_segment call that returns a tuple for a title
\* raises that title's current_index by exactly 1 and changes nothing else,
\* a call that returns None changes nothing; reset and delete leave every
\* remaining book's segments and total_segments as they were; and
\* total_segments = len(segments) in every record.
C15_FrameOfOperations ==
    /\ (lastOp.op = "nextUnread" /\ result = None) => store = pre
    /\ (lastOp.op = "nextUnread" /\ Served(result)) =>
          /\ DOMAIN store = DOMAIN pre
          /\ \A t \in DOMAIN store :
                IF t = result.book_title
                THEN /\ store[t].current_index = pre[t].current_index + 1
                     /\ store[t].segments = pre[t].segments
                     /\ store[t].total_segments = pre[t].total_segments
                ELSE store[t] = pre[t]
    /\ lastOp.op \in {"reset", "resetAll"} => DOMAIN store = DOMAIN pre
    /\ lastOp.op \in {"reset", "resetAll", "delete"} =>
          \A t \in DOMAIN store :
              /\ t \in DOMAIN pre
              /\ store[t].segments = pre[t].segments
              /\ store[t].total_segments = pre[t].total_segments
    /\ \A t \in DOMAIN store :
          store[t].total_segments = Len(store[t].segments)

\* C15 witness: a segment was served while the other book of the library was
\* partly read.
C15_Witness ==
    /\ lastOp.op = "nextUnread"
    /\ Served(result)
    /\ \E t \in DOMAIN pre :
          /\ t # result.book_title
          /\ pre[t].current_index > 0
          /\ pre[t].current_index < pre[t].total_segments

RECURSIVE TotalUnread(_)
\* the sum over the books of total_segments - current_index
TotalUnread(library) ==
    IF DOMAIN library = {} THEN 0
    ELSE LET t == CHOOSE x \in DOMAIN library : TRUE
         IN (library[t].total_segments - library[t].current_index)
            + TotalUnread([x \in DOMAIN library \ {t} |-> library[x]])

ServedCount == Cardinality({ k \in 1..Len(calls) : Served(calls[k]) })

\* C17: in a run of get_random_unread_segment calls with nothing in between,
\* each served call lowers the number of unread segments by exactly 1; the
\* first U calls are served, U being the number unread at the start, after
\* them every book is complete and every further call returns None.
C17_RunExhaustsLibrary ==
    LET U == TotalUnread(runStart)
    IN /\ TotalUnread(store) = U - ServedCount
       /\ \A k \in 1..Len(calls) : Served(calls[k]) <=> k <= U
       /\ Len(calls) >= U =>
             \A t \in DOMAIN store :
                 store[t].current_index = store[t].total_segments

\* C17 witness: two books with four or more unread segments between them
\* were read alternately to the end, and one more call returned None.
C17_Witness ==
    /\ Cardinality(DOMAIN runStart) = 2
    /\ TotalUnread(runStart) >= 4
    /\ Len(calls) = TotalUnread(runStart) + 1
    /\ calls[1].book_title # calls[2].book_title
    /\ calls[Len(calls)] = None

\* C18: the progress of every stored record is 0 when total_segments = 0 and
\* 100 * current_index / total_segments otherwise, lies in [0, 100], is 0
\* right after ingest and after reset, and is 100 exactly when the book is
\* complete (current_index = total_segments).
C18_ProgressValue ==
    \A t \in DOMAIN store :
        LET p == calculate_progress(store[t])
        IN /\ store[t].total_segments = 0 => p.num = 0
           /\ store[t].total_segments # 0 =>
                 p.num * store[t].total_segments
                    = 100 * store[t].current_index * p.den
           /\ 0 <= p.num /\ p.num <= 100 * p.den
           /\ (lastOp.op \in {"ingest", "reset"} /\ lastOp.title = t) =>
                 p.num = 0
           /\ (p.num = 100 * p.den) <=>
                 (store[t].current_index = store[t].total_segments)

\* C11: no script run ends in an unhandled exception, whatever page events
\* came before it, a run that displays the last served segment after its
\* book was reset or deleted included.
C11_NoUnhandledError == page_error = "none"

\* C12: after every controller operation st.session_state.books_data equals
\* the library in the file, also when the write of the file failed.
C12_SessionMatchesStore ==
    lastOp.op # "init" => session_books_data = store

\* C13: every call of the external service, for segmentation or for a
\* summary, that a page event leads to is made with a non-empty key.
C13_NoCallWithoutKey ==
    /\ segcall.state = "returned" => segcall.api_key # ""
    /\ sumcall.state = "returned" => sumcall.api_key # ""

\* C13 witness: with the key input empty, a script run over a library with
\* unread segments and a displayed later segment made no summary call.
C13_Witness ==
    /\ api_key = ""
    /\ Unread(store) # {}
    /\ current_display # None
    /\ current_display.book_title \in DOMAIN store
    /\ ~ current_display.is_first_segment
    /\ sumcall.state = "none"
    /\ lastOp.op = "nextUnread"

\* C14: when the segmentation call fails or returns something that is not a
\* non-empty array, the segmenter returns the fallback segmentation of the
\* text and the ingest stores the record with cursor 0; when the
\* summarization call fails, the summary is the fixed fallback sentence and
\* the script run goes on.
C14_ServiceFailureRecovered ==
    /\ (segcall.state = "returned" /\ FellBack(segcall)) =>
          /\ segcall.segments = FallbackSegments(segcall.book_content)
          /\ lastOp.op = "ingest"
          /\ lastOp.title \in DOMAIN store
          /\ store[lastOp.title] =
                [segments |-> FallbackSegments(segcall.book_content),
                 current_index |-> 0,
                 total_segments |->
                    Len(FallbackSegments(segcall.book_content))]
    /\ (sumcall.state = "returned" /\ ~ sumcall.outcome.ok) =>
          /\ sumcall.summary = FallbackSummary
          /\ page_error = "none"

\* C14 witness: a Process click whose segmentation call returned an empty
\* array fell back to two or more segments, and the summary call of the same
\* script run failed.
C14_Witness ==
    /\ segcall.state = "returned"
    /\ segcall.response.kind = "list"
    /\ segcall.response.segments = <<>>
    /\ Len(segcall.segments) >= 2
    /\ sumcall.state = "returned"
    /\ ~ sumcall.outcome.ok

\* the get_random_unread_segment call of session s loaded the file, returned
\* a tuple and saved
RaceServed(s) ==
    /\ sess[s].op = "nextUnread"
    /\ sess[s].pc = "idle"
    /\ sess[s].saved

\* C16: an operation saves the whole mapping it loaded, whatever was written
\* in between.  So two get_random_unread_segment calls that loaded the same
\* library and chose the same title return the same index and each leaves
\* the stored cursor at that index + 1, and the save of a call puts every
\* other title back to what the call loaded, whether it was ingested,
\* deleted or changed since.
C16_LostUpdate ==
    /\ \A s \in Sessions : RaceServed(s) =>
          LET o == sess[s]
          IN /\ o.books_data[o.title].current_index
                   = o.result.segment_index + 1
             /\ DOMAIN o.books_data = DOMAIN o.loaded
             /\ \A u \in DOMAIN o.books_data \ {o.title} :
                   o.books_data[u] = o.loaded[u]
    /\ (RaceServed(1) /\ RaceServed(2)
        /\ sess[1].loaded = sess[2].loaded
        /\ sess[1].title = sess[2].title) =>
          /\ sess[1].result = sess[2].result
          /\ sess[1].books_data = sess[2].books_data

\* C16 witness: both sessions were served the same segment, the stored cursor
\* is one past it, and the later of the two saves removed a book that was
\* ingested after its load.
C16_Witness ==
    /\ RaceServed(1) /\ RaceServed(2)
    /\ sess[1].result = sess[2].result
    /\ sess[1].title \in DOMAIN store
    /\ store[sess[1].title].current_index
          = sess[1].result.segment_index + 1
    /\ \E s \in Sessions, u \in Titles :
          /\ u # sess[s].title
          /\ u \in DOMAIN sess[s].before
          /\ u \notin DOMAIN sess[s].loaded
          /\ u \notin DOMAIN store

====
